---- MODULE Spec2Model ----
(***************************************************************************)
(* Session bootstrap and role resolution of the healthcare application:    *)
(* the AuthProvider of src/providers/auth-provider.tsx (its React state    *)
(* user / userRoles / loading, the mount effect, handleUserSession and the *)
(* signIn / signUp / signOut entry points) running against the hosted      *)
(* backend, which is modelled as an opaque service that answers each call  *)
(* with success, an error result or a thrown exception.  The in-memory     *)
(* MockAuthService of the same file is modelled next to it: its methods    *)
(* contain no await, so each call is one action.  The cart of the pharmacy *)
(* page (src/app/pharmacy/page.tsx) and the form of the admin setup page   *)
(* (src/app/setup/admin/page.tsx) are modelled the same way.               *)
(*                                                                         *)
(* An async function is cut at its awaits: the code between two awaits     *)
(* runs without interruption on the single UI thread and is one action.    *)
(***************************************************************************)
EXTENDS Integers, Sequences, FiniteSets, TLC

\* ------------------------------------------------------------- bounds ----
\* Runs of handleUserSession started over the life of the provider, with its
\* entry points in use (Spec) and with the resolver alone (SpecResolver).
MaxRes == 1
MaxRuns == 2
\* Session-change notifications the backend has emitted and not yet delivered.
MaxQueue == 1
\* Calls of signIn / signUp / signOut made over the life of the provider.
MaxCalls == 1
\* rows the user_roles relation holds for one identity when the redirect is
\* examined over every role list
MaxRows == 2
\* Largest value Date.now() takes while the MockAuthService is in use.
MaxClock == 2
\* Calls of MockAuthService.onAuthStateChange over the life of the service,
\* with its user data in use (SpecMock) and with the listeners alone
\* (SpecListeners).
MaxListeners == 1
MaxSubs == 2
\* Largest stock_quantity of a medicine, and the largest quantity passed to
\* updateQuantity or reached by addToCart when they are called directly.
MaxStock == 2
MaxQuantity == 3
\* Calls of handleCheckout over the life of the pharmacy page.
MaxCheckouts == 1
\* Calls of handleSubmit of the admin setup page that reach createSuperAdmin.
MaxSubmissions == 1

\* ---------------------------------------------------------- value sets ----
Identities == {"u1", "u2"}
NoSession == "null"
Sessions == Identities \cup {NoSession}

\* Error objects the backend auth calls can hand back.
SignInErrors == {"invalid_credentials", "email_not_confirmed"}
SignUpErrors == {"user_already_registered"}
SignOutErrors == {"network_failure"}
\* Outcome of one storage call: a result, an {error} result, or an exception.
DbOutcomes == {"ok", "error", "throw"}

\* A path is the sequence of its characters.
PathRoot == <<"/">>
PathAuthLogin == <<"/", "a", "u", "t", "h", "/", "l", "o", "g", "i", "n">>
PathAuthBare == <<"/", "a", "u", "t", "h">>
PathDash == <<"/", "d", "a", "s", "h", "b", "o", "a", "r", "d", "/">>
PathPatient == PathDash \o <<"p", "a", "t", "i", "e", "n", "t">>
PathDoctor == PathDash \o <<"d", "o", "c", "t", "o", "r">>
PathClinic == PathDash \o <<"c", "l", "i", "n", "i", "c">>
PathDriver == PathDash \o <<"d", "r", "i", "v", "e", "r">>
PathAdmin == PathDash \o <<"a", "d", "m", "i", "n">>
PathModerator == PathDash \o <<"m", "o", "d", "e", "r", "a", "t", "o", "r">>

\* Locations the browser can be at when the provider mounts.
StartLocations == {PathRoot, PathAuthLogin, PathAuthBare, PathPatient}

Row(u, r) == [user_id |-> u, role |-> r]

\* Contents of the user_roles relation when the provider mounts.
StartRoleTables ==
    { <<>>,
      <<Row("u1", "driver"), Row("u2", "admin"), Row("u1", "patient")>>,
      <<Row("u2", "moderator"), Row("u2", "unknown_role")>> }

\* ------------------------------------------------------------- state ----
VARIABLES
    user,        \* useState<AuthUser | null>
    userRoles,   \* useState<string[]>
    loading,     \* useState(true)
    location,    \* window.location.pathname, moved by router.push
    session,     \* the backend's current session (an identity or null)
    roleTable,   \* the backend's user_roles relation
    initQuery,   \* the getSession() promise of the mount effect
    queue,       \* notifications emitted to the onAuthStateChange subscriber
    res,         \* the runs of handleUserSession, in the order they started
    calls,       \* the calls of signIn / signUp / signOut awaiting the backend
    callsMade,   \* number of calls of signIn / signUp / signOut so far
    lastCall,    \* how the promise of the call that returned last settled
    hist,        \* history of the runs of handleUserSession (see Record)
    mockUsers,        \* mock-data: the user records
    mockUserRoles,    \* mock-data: the role assignments
    mockCredentials,  \* mock-data: email -> { password, userId }
    currentUser,      \* MockAuthService.currentUser
    listeners,        \* MockAuthService.listeners
    subs,             \* the unsubscribe closures onAuthStateChange returned
    clock,            \* Date.now()
    lastSeen,         \* the value each callback was last called with
    notified,         \* the callbacks the last call invoked, in order
    mockResult,       \* the last call of the service and what it returned
    lastSignUp,       \* history: the successful signUp only signOuts followed
    supabaseConfigured,  \* isSupabaseConfigured()
    medicines,        \* pharmacy: useState<Medicine[]>
    cart,             \* pharmacy: useState<CartItem[]>
    pageLoading,      \* pharmacy: useState(true)
    cartToast,        \* pharmacy: the last toast shown
    checkouts,        \* pharmacy: the calls of handleCheckout, in order
    orders,           \* backend: the orders relation
    orderItems,       \* backend: the order_items relation
    formData,         \* admin setup: useState({email, password, ...})
    adminLoading,     \* admin setup: useState(false)
    success,          \* admin setup: useState(false)
    submissions,      \* admin setup: the calls of handleSubmit that passed validation
    adminToast,       \* admin setup: the last toast shown
    redirectTimer,    \* admin setup: the setTimeout of the success branch
    adminRoute        \* admin setup: where router.push has led

mockVars == <<mockUsers, mockUserRoles, mockCredentials, currentUser,
              listeners, subs, clock, lastSeen, notified, mockResult,
              lastSignUp>>

providerVars == <<user, userRoles, loading, location, session, roleTable,
                  initQuery, queue, res, calls, callsMade, lastCall, hist>>

cartVars == <<medicines, cart, pageLoading, cartToast, checkouts, orders,
              orderItems>>

adminVars == <<formData, adminLoading, success, submissions, adminToast,
               redirectTimer, adminRoute>>

pageVars == <<supabaseConfigured, cartVars, adminVars>>

vars == <<providerVars, mockVars, pageVars>>

NoUser == [id |-> "null", user_roles |-> <<>>]

\* -------------------------------------------------- pure helper code ----
\* .select('role').eq('user_id', id): the rows of the identity, in table order,
\* each cut down to its role column.
SelectRoles(table, id) ==
    LET mine == SelectSeq(table, LAMBDA row : row.user_id = id)
    IN  [i \in 1..Len(mine) |-> [role |-> mine[i].role]]

\* rolesData?.map(r => r.role) || []
FetchedRolesReversed(rolesData) ==
    [i \in 1..Len(rolesData) |-> rolesData[Len(rolesData) + 1 - i].role]
FetchedRoles(rolesData) == [i \in 1..Len(rolesData) |-> rolesData[i].role]

\* What follows the awaited upsert: an {error} result is logged and the flow
\* goes on to the role read; an exception leaves the inner try for its catch.
UpsertBranchStrict(outcome) == IF outcome = "ok" THEN "read" ELSE "fallback"
UpsertBranch(outcome) == IF outcome = "throw" THEN "fallback" ELSE "read"

\* What follows the awaited role read.
ReadBranchInsertOnError(outcome, fetchedRoles) ==
    IF outcome = "throw" THEN "fallback"
    ELSE IF Len(fetchedRoles) = 0 THEN "insert"
    ELSE "use"
ReadBranch(outcome, fetchedRoles) ==
    IF outcome = "throw" THEN "fallback"
    ELSE IF outcome = "error" THEN "readError"
    ELSE IF Len(fetchedRoles) = 0 THEN "insert"
    ELSE "use"

\* roles = ['patient'] after a failed role read.
RolesOnReadErrorNone == <<>>
RolesOnReadError == <<"patient">>

\* roles after the awaited default-role insert: the same list whether the
\* insert succeeded, returned an error or threw.
RolesAfterInsertStrict(outcome) == IF outcome = "ok" THEN <<"patient">> ELSE <<>>
RolesAfterInsert(outcome) ==
    IF outcome = "ok" THEN <<"patient">>
    ELSE IF outcome = "error" THEN <<"patient">>
    ELSE <<"patient">>

\* roles = ['patient'] in catch (dbError).
RolesOnDbError == <<"patient">>

\* { ...authUser, user_roles: roles.map(role => ({ role })) }
UserWithRoles(authUser, roles) ==
    [id |-> authUser, user_roles |-> [i \in 1..Len(roles) |-> [role |-> roles[i]]]]

\* String.prototype.startsWith
StartsWith(s, prefix) ==
    /\ Len(s) >= Len(prefix)
    /\ \A i \in 1..Len(prefix) : s[i] = prefix[i]

\* dashboardRoutes[primaryRole] || '/dashboard/patient'
RedirectPathLastRole(roles) ==
    LET primaryRole == IF Len(roles) = 0 THEN "undefined" ELSE roles[Len(roles)]
    IN  CASE primaryRole = "patient" -> PathPatient
          [] primaryRole = "doctor" -> PathDoctor
          [] primaryRole = "clinic" -> PathClinic
          [] primaryRole = "driver" -> PathDriver
          [] primaryRole = "admin" -> PathAdmin
          [] primaryRole = "super_admin" -> PathAdmin
          [] primaryRole = "moderator" -> PathModerator
          [] OTHER -> PathPatient
RedirectPath(roles) ==
    LET primaryRole == IF Len(roles) = 0 THEN "undefined" ELSE roles[1]
    IN  CASE primaryRole = "patient" -> PathPatient
          [] primaryRole = "doctor" -> PathDoctor
          [] primaryRole = "clinic" -> PathClinic
          [] primaryRole = "driver" -> PathDriver
          [] primaryRole = "admin" -> PathAdmin
          [] primaryRole = "super_admin" -> PathAdmin
          [] primaryRole = "moderator" -> PathModerator
          [] OTHER -> PathPatient

\* pathname === '/' || pathname.startsWith('/auth/')
AtEntryAreaNoSlash(pathname) ==
    \/ pathname = PathRoot
    \/ StartsWith(pathname, <<"/", "a", "u", "t", "h">>)
AtEntryArea(pathname) ==
    \/ pathname = PathRoot
    \/ StartsWith(pathname, <<"/", "a", "u", "t", "h", "/">>)

\* The finally block of handleUserSession: setLoading(false).
LoadingAfterSessionKept == loading
LoadingAfterSession == FALSE

\* ----------------------------------------------- MockAuthService data ----
Emails == {"a@x", "b@x", "c@x"}
Passwords == {"pw1", "pw2"}
FullNames == {"Bob"}
\* The functions callers pass to onAuthStateChange.
Callbacks == {"f", "g"}

\* `user_${Date.now()}` and `role_${Date.now()}`; the ids of the seed data
\* carry another prefix.
UserId(now) == [prefix |-> "user_", stamp |-> now]
RoleId(now) == [prefix |-> "role_", stamp |-> now]
SeedId(n) == [prefix |-> "seed_", stamp |-> n]
NoId == [prefix |-> "null", stamp |-> 0]

\* AuthUser | null
AuthUser(id, email, fullName) ==
    [id |-> id, email |-> email, user_metadata |-> [full_name |-> fullName]]
NoAuthUser == AuthUser(NoId, "null", "null")

\* A key mockCredentials does not hold.
NoCredential == [password |-> "undefined", userId |-> NoId]

\* The seed of mock-data: one registered user, and the same credential table
\* over a user list that lacks the record the credential points to.
SeedUsers == <<[id |-> SeedId(1), email |-> "a@x", full_name |-> "Ann"]>>
SeedUserRoles == <<[id |-> SeedId(1), user_id |-> SeedId(1), role |-> "doctor"]>>
SeedCredentials ==
    [e \in Emails |-> IF e = "a@x"
                      THEN [password |-> "pw1", userId |-> SeedId(1)]
                      ELSE NoCredential]

\* What a call of the service returned: the call, the settled promise and
\* the { user, error } it carries.
MockReturn(op, authUser, error) ==
    [op |-> op, settled |-> "fulfilled", user |-> authUser, error |-> error]
NoMockReturn == MockReturn("none", NoAuthUser, "null")

NoSignUp == [email |-> "null", password |-> "null", user |-> NoAuthUser]

\* The MockAuthService singleton after construction, over a given seed.
MockConstructed(users) ==
    /\ mockUsers = users
    /\ mockUserRoles = SeedUserRoles
    /\ mockCredentials = SeedCredentials
    /\ currentUser = NoAuthUser
    /\ listeners = <<>>
    /\ subs = <<>>
    /\ clock = 1
    /\ lastSeen = [cb \in Callbacks |-> NoAuthUser]
    /\ notified = <<>>
    /\ mockResult = NoMockReturn
    /\ lastSignUp = NoSignUp

\* ------------------------------------------------------ pharmacy data ----
Medicine(id, price, stock) == [id |-> id, price |-> price, stock_quantity |-> stock]

\* { ...medicine, quantity }
CartItem(medicine, quantity) ==
    [id |-> medicine.id, price |-> medicine.price,
     stock_quantity |-> medicine.stock_quantity, quantity |-> quantity]

\* What the medicines relation can hold when the page loads it: rows with
\* distinct ids, some out of stock.
StartMedicines ==
    { <<Medicine("m1", 2, MaxStock), Medicine("m2", 3, 1)>>,
      <<Medicine("m1", 2, 0), Medicine("m2", 3, MaxStock)>> }

\* Every medicine of some catalogue.
Catalogue == {list[i] : i \in 1..2, list \in StartMedicines}

\* prev.find(item => item.id === id) finds an item.
InCart(prev, id) == \E i \in 1..Len(prev) : prev[i].id = id

\* The updater of addToCart (lines 77-87).
AddedToCartTwice(prev, medicine) == Append(prev, CartItem(medicine, 1))
AddedToCart(prev, medicine) ==
    IF InCart(prev, medicine.id)
    THEN [i \in 1..Len(prev) |->
             IF prev[i].id = medicine.id
             THEN [prev[i] EXCEPT !.quantity = @ + 1]
             ELSE prev[i]]
    ELSE Append(prev, CartItem(medicine, 1))

\* The updaters of updateQuantity (lines 92-103).
QuantityUpdated(prev, medicineId, newQuantity) ==
    IF newQuantity <= 0
    THEN SelectSeq(prev, LAMBDA item : item.id # medicineId)
    ELSE [i \in 1..Len(prev) |->
             IF prev[i].id = medicineId
             THEN [prev[i] EXCEPT !.quantity = newQuantity]
             ELSE prev[i]]

\* getTotalPrice(): cart.reduce((total, item) => total + item.price * item.quantity, 0)
RECURSIVE TotalPrice(_)
TotalPrice(items) ==
    IF items = <<>> THEN 0
    ELSE TotalPrice(SubSeq(items, 1, Len(items) - 1))
            + items[Len(items)].price * items[Len(items)].quantity

\* cart.map(item => ({ order_id, medicine_id, quantity, price }))
OrderItemsOf(items, orderId) ==
    [i \in 1..Len(items) |->
        [order_id |-> orderId, medicine_id |-> items[i].id,
         quantity |-> items[i].quantity, price |-> items[i].price]]

\* The pharmacy page after construction, before loadMedicines has answered.
PharmacyConstructed ==
    /\ medicines = <<>>
    /\ cart = <<>>
    /\ pageLoading = TRUE
    /\ cartToast = "none"
    /\ checkouts = <<>>
    /\ orders = <<>>
    /\ orderItems = <<>>

\* --------------------------------------------------- admin setup data ----
\* formData.password.length < 8
MinPasswordLength == 8

\* A password of n characters, all c.
Password(n, c) == [i \in 1..n |-> c]

\* What the user can have typed into the password fields.
TypedPasswords ==
    {Password(0, "x"), Password(MinPasswordLength - 1, "x"),
     Password(MinPasswordLength, "x"), Password(MinPasswordLength, "y")}

TypedEmails == {"", "admin@x"}
TypedNames == {"", "Root"}

PathSetupAdmin == <<"/", "s", "e", "t", "u", "p", "/", "a", "d", "m", "i", "n">>

\* How AdminService.createSuperAdmin can answer: it resolves, or it rejects
\* with an error whose message says the admin already exists, with another
\* message, or with a value that carries no message.
CreateOutcomes == {"resolve", "already exists", "failed", "no message"}

\* The admin setup page after construction.
AdminConstructed ==
    /\ formData = [email |-> "", password |-> <<>>, confirmPassword |-> <<>>,
                   fullName |-> ""]
    /\ adminLoading = FALSE
    /\ success = FALSE
    /\ submissions = <<>>
    /\ adminToast = "none"
    /\ redirectTimer = FALSE
    /\ adminRoute = PathSetupAdmin

\* Both pages after construction, the backend configured.
PagesConstructed ==
    /\ supabaseConfigured = TRUE
    /\ PharmacyConstructed
    /\ AdminConstructed

\* --------------------------------------------------------------- Init ----
Init ==
    /\ PagesConstructed
    /\ MockConstructed(SeedUsers)
    /\ user = NoUser
    /\ userRoles = <<>>
    /\ loading = TRUE
    /\ location \in StartLocations
    /\ session \in Sessions
    /\ roleTable \in StartRoleTables
    /\ initQuery = [pending |-> TRUE, session |-> session]
    /\ queue \in {<<>>, <<session>>}
    /\ res = <<>>
    /\ calls = <<>>
    /\ callsMade = 0
    /\ lastCall = [status |-> "none", error |-> "none"]
    /\ hist = <<>>

\* ------------------------------------------------- handleUserSession ----
\* A run from its call to its first await: the upsert is on its way.  The
\* field superseded is history, not program state: it is TRUE while the run is
\* in flight and a signOut has completed successfully since it started.
NewRun(authUser) ==
    [authUser |-> authUser, pc |-> "upsert", settled |-> "pending",
     superseded |-> FALSE]

\* A run that has returned: its locals are gone, its promise is fulfilled.
DoneRun ==
    [authUser |-> NoSession, pc |-> "done", settled |-> "fulfilled",
     superseded |-> FALSE]

StartSession(authUser, cap) ==
    /\ Len(res) < cap
    /\ res' = Append(res, NewRun(authUser))

\* From the end of the inner try/catch to the end of the function: the state
\* writes, the redirect and the finally block, with no await in between.
FinishSession(r, roles) ==
    /\ user' = UserWithRoles(res[r].authUser, roles)
    /\ userRoles' = roles
    /\ location' = IF AtEntryArea(location) THEN RedirectPath(roles) ELSE location
    /\ loading' = LoadingAfterSession
    /\ res' = [res EXCEPT ![r] = DoneRun]

\* The awaited users.upsert comes back.
UpsertReturn(r, outcome) ==
    /\ res[r].pc = "upsert"
    /\ IF UpsertBranch(outcome) = "fallback"
       THEN FinishSession(r, RolesOnDbError)
       ELSE /\ res' = [res EXCEPT ![r].pc = "read"]
            /\ UNCHANGED <<user, userRoles, loading, location>>
    /\ UNCHANGED <<session, roleTable, initQuery, queue, calls, callsMade, lastCall>>

\* The awaited user_roles.select comes back.
ReadReturn(r, outcome) ==
    /\ res[r].pc = "read"
    /\ LET rolesData == IF outcome = "ok"
                        THEN SelectRoles(roleTable, res[r].authUser)
                        ELSE <<>>
           fetchedRoles == FetchedRoles(rolesData)
           branch == ReadBranch(outcome, fetchedRoles)
       IN  CASE branch = "fallback" -> FinishSession(r, RolesOnDbError)
             [] branch = "readError" -> FinishSession(r, RolesOnReadError)
             [] branch = "use" -> FinishSession(r, fetchedRoles)
             [] branch = "insert" ->
                  /\ res' = [res EXCEPT ![r].pc = "insert"]
                  /\ UNCHANGED <<user, userRoles, loading, location>>
    /\ UNCHANGED <<session, roleTable, initQuery, queue, calls, callsMade, lastCall>>

\* The awaited user_roles.insert of the default role comes back.
InsertReturn(r, outcome) ==
    /\ res[r].pc = "insert"
    /\ roleTable' = IF outcome = "ok"
                    THEN Append(roleTable, Row(res[r].authUser, "patient"))
                    ELSE roleTable
    /\ FinishSession(r, RolesAfterInsert(outcome))
    /\ UNCHANGED <<session, initQuery, queue, calls, callsMade, lastCall>>

\* ------------------------------------------------------ mount effect ----
\* supabase.auth.getSession().then(...): the session the query found.
GetSessionReturnSilent(cap) ==
    /\ initQuery.pending
    /\ initQuery' = [initQuery EXCEPT !.pending = FALSE]
    /\ IF initQuery.session # NoSession
       THEN /\ StartSession(initQuery.session, cap)
            /\ UNCHANGED loading
       ELSE UNCHANGED <<loading, res>>
    /\ UNCHANGED <<user, userRoles, location, session, roleTable,
                   queue, calls, callsMade, lastCall>>
GetSessionReturn(cap) ==
    /\ initQuery.pending
    /\ initQuery' = [initQuery EXCEPT !.pending = FALSE]
    /\ IF initQuery.session # NoSession
       THEN /\ StartSession(initQuery.session, cap)
            /\ UNCHANGED loading
       ELSE /\ loading' = FALSE
            /\ UNCHANGED res
    /\ UNCHANGED <<user, userRoles, location, session, roleTable,
                   queue, calls, callsMade, lastCall>>

\* setUserRoles([]) in the null-session branch of the onAuthStateChange callback.
RolesOnNoSessionKept == userRoles
RolesOnNoSession == <<>>

\* The onAuthStateChange callback, up to its first await, for the oldest
\* undelivered notification.
AuthStateChange(cap) ==
    /\ queue # <<>>
    /\ queue' = Tail(queue)
    /\ IF Head(queue) # NoSession
       THEN /\ StartSession(Head(queue), cap)
            /\ UNCHANGED <<user, userRoles, loading>>
       ELSE /\ user' = NoUser
            /\ userRoles' = RolesOnNoSession
            /\ loading' = FALSE
            /\ UNCHANGED res
    /\ UNCHANGED <<location, session, roleTable, initQuery, calls, callsMade, lastCall>>

\* ----------------------------------------------------------- backend ----
\* The backend emits a notification to the subscriber.
Emit(s) ==
    /\ Len(queue) < MaxQueue
    /\ queue' = Append(queue, s)

\* The backend refreshes the token of the current session and says so.
TokenRefresh ==
    /\ session # NoSession
    /\ Emit(session)
    /\ UNCHANGED <<user, userRoles, loading, location, session, roleTable,
                   initQuery, res, calls, callsMade, lastCall>>

\* ------------------------------------------------------ entry points ----
\* How the promise of signIn / signUp / signOut settles: if (error) throw error.
SettleSwallowed(outcome) == [status |-> "fulfilled", error |-> "none"]
Settle(outcome) ==
    IF outcome = "ok"
    THEN [status |-> "fulfilled", error |-> "none"]
    ELSE [status |-> "rejected", error |-> outcome]

\* A call up to its await; outcome is the answer the backend will give.
NewCall(op, outcome) == [op |-> op, outcome |-> outcome]

BeginCall(call) ==
    /\ callsMade < MaxCalls
    /\ callsMade' = callsMade + 1
    /\ calls' = Append(calls, call)

RemoveAt(s, i) == [j \in 1..(Len(s) - 1) |-> IF j < i THEN s[j] ELSE s[j + 1]]

SettleCall(i) ==
    /\ calls' = RemoveAt(calls, i)
    /\ lastCall' = Settle(calls[i].outcome)

\* Whether signOut reaches its state writes and router.push('/').
SignOutClearsAlways(outcome) == TRUE
SignOutClears(outcome) == outcome = "ok"

\* signIn / signUp up to the await: the backend checks the credentials (or
\* registers the account) and, when it accepts, opens the session of the
\* identity and notifies the subscriber.
SignInCall(id, outcome) ==
    /\ BeginCall(NewCall("signIn", outcome))
    /\ IF outcome = "ok"
       THEN session' = id /\ Emit(id)
       ELSE UNCHANGED <<session, queue>>
    /\ UNCHANGED <<user, userRoles, loading, location, roleTable,
                   initQuery, res, lastCall>>

SignUpCall(id, outcome) ==
    /\ BeginCall(NewCall("signUp", outcome))
    /\ IF outcome = "ok"
       THEN /\ SelectRoles(roleTable, id) = <<>>
            /\ session' = id
            /\ Emit(id)
       ELSE UNCHANGED <<session, queue>>
    /\ UNCHANGED <<user, userRoles, loading, location, roleTable,
                   initQuery, res, lastCall>>

\* signOut up to the await: the backend ends the session and notifies.
SignOutCall(outcome) ==
    /\ BeginCall(NewCall("signOut", outcome))
    /\ IF outcome = "ok"
       THEN session' = NoSession /\ Emit(NoSession)
       ELSE UNCHANGED <<session, queue>>
    /\ UNCHANGED <<user, userRoles, loading, location, roleTable,
                   initQuery, res, lastCall>>

\* signIn / signUp after the await, as it would be if it stored the session of
\* an accepted call itself.
SignInReturnStoring(i) ==
    /\ calls[i].op \in {"signIn", "signUp"}
    /\ SettleCall(i)
    /\ user' = IF calls[i].outcome = "ok" /\ session # NoSession
               THEN UserWithRoles(session, <<"patient">>)
               ELSE user
    /\ userRoles' = IF calls[i].outcome = "ok" /\ session # NoSession
                    THEN <<"patient">>
                    ELSE userRoles
    /\ UNCHANGED <<loading, location, session, roleTable,
                   initQuery, queue, res, callsMade>>

\* signIn / signUp after the await.
SignInReturn(i) ==
    /\ calls[i].op \in {"signIn", "signUp"}
    /\ SettleCall(i)
    /\ UNCHANGED <<user, userRoles, loading, location, session, roleTable,
                   initQuery, queue, res, callsMade>>

\* signOut after the await.
SignOutReturn(i) ==
    /\ calls[i].op = "signOut"
    /\ SettleCall(i)
    /\ IF SignOutClears(calls[i].outcome)
       THEN /\ user' = NoUser
            /\ userRoles' = <<>>
            /\ location' = PathRoot
            /\ res' = [r \in 1..Len(res) |->
                         IF res[r].pc = "done" THEN res[r]
                         ELSE [res[r] EXCEPT !.superseded = TRUE]]
       ELSE UNCHANGED <<user, userRoles, location, res>>
    /\ UNCHANGED <<loading, session, roleTable, initQuery, queue, callsMade>>

\* ------------------------------------------------------------ history ----
\* hist[r] records what run r of handleUserSession met and did: the identity
\* it was called with, the outcome of each storage call it awaited, the rows
\* its role read returned, the number of role inserts it sent, and, from the
\* step in which it returned, the role list it ended with, the user it stored,
\* the loading flag it left and how its promise settled.  The program never
\* reads hist.
NoHistory ==
    [authUser |-> NoSession, upsert |-> "none", read |-> "none",
     insert |-> "none", rolesData |-> <<>>, inserts |-> 0, roles |-> <<>>,
     stored |-> NoUser, loadingAfter |-> TRUE, settled |-> "pending"]

\* The step may have started one more run.
RecordStart ==
    hist' = IF Len(res') > Len(res)
            THEN Append(hist, [NoHistory EXCEPT !.authUser = res'[Len(res')].authUser])
            ELSE hist

\* The step was the return of the storage call `call` of run r with `outcome`.
RecordReturn(r, call, outcome) ==
    LET returned == res'[r].pc = "done"
    IN  hist' = [hist EXCEPT ![r] =
          [@ EXCEPT
             ![call] = outcome,
             !.rolesData = IF call = "read" /\ outcome = "ok"
                           THEN SelectRoles(roleTable, res[r].authUser)
                           ELSE @,
             !.inserts = IF res[r].pc # "insert" /\ res'[r].pc = "insert"
                         THEN @ + 1
                         ELSE @,
             !.roles = IF returned THEN userRoles' ELSE @,
             !.stored = IF returned THEN user' ELSE @,
             !.loadingAfter = IF returned THEN loading' ELSE @,
             !.settled = res'[r].settled]]

\* --------------------------------------------------------------- Next ----
\* The provider with its entry points, under every interleaving.
Next ==
    \/ GetSessionReturn(MaxRes) /\ UNCHANGED <<hist, mockVars, pageVars>>
    \/ AuthStateChange(MaxRes) /\ UNCHANGED <<hist, mockVars, pageVars>>
    \/ TokenRefresh /\ UNCHANGED <<hist, mockVars, pageVars>>
    \/ \E r \in 1..Len(res), o \in DbOutcomes : UpsertReturn(r, o) /\ UNCHANGED <<hist, mockVars, pageVars>>
    \/ \E r \in 1..Len(res), o \in DbOutcomes : ReadReturn(r, o) /\ UNCHANGED <<hist, mockVars, pageVars>>
    \/ \E r \in 1..Len(res), o \in DbOutcomes : InsertReturn(r, o) /\ UNCHANGED <<hist, mockVars, pageVars>>
    \/ \E id \in Identities, o \in {"ok"} \cup SignInErrors :
          SignInCall(id, o) /\ UNCHANGED <<hist, mockVars, pageVars>>
    \/ \E id \in Identities, o \in {"ok"} \cup SignUpErrors :
          SignUpCall(id, o) /\ UNCHANGED <<hist, mockVars, pageVars>>
    \/ \E o \in {"ok"} \cup SignOutErrors : SignOutCall(o) /\ UNCHANGED <<hist, mockVars, pageVars>>
    \/ \E i \in 1..Len(calls) : SignInReturn(i) /\ UNCHANGED <<hist, mockVars, pageVars>>
    \/ \E i \in 1..Len(calls) : SignOutReturn(i) /\ UNCHANGED <<hist, mockVars, pageVars>>

Spec == Init /\ [][Next]_vars

\* The role resolver alone: sessions reported by the backend and the runs of
\* handleUserSession they start, with the history of every run kept.
NextResolver ==
    \/ GetSessionReturn(MaxRuns) /\ RecordStart /\ UNCHANGED <<mockVars, pageVars>>
    \/ AuthStateChange(MaxRuns) /\ RecordStart /\ UNCHANGED <<mockVars, pageVars>>
    \/ TokenRefresh /\ UNCHANGED <<hist, mockVars, pageVars>>
    \/ \E r \in 1..Len(res), o \in DbOutcomes :
          UpsertReturn(r, o) /\ RecordReturn(r, "upsert", o)
          /\ UNCHANGED <<mockVars, pageVars>>
    \/ \E r \in 1..Len(res), o \in DbOutcomes :
          ReadReturn(r, o) /\ RecordReturn(r, "read", o)
          /\ UNCHANGED <<mockVars, pageVars>>
    \/ \E r \in 1..Len(res), o \in DbOutcomes :
          InsertReturn(r, o) /\ RecordReturn(r, "insert", o)
          /\ UNCHANGED <<mockVars, pageVars>>

SpecResolver == Init /\ [][NextResolver]_vars

\* The role resolver when every backend call eventually returns a result or
\* an error and every delivered answer or notification is eventually handled:
\* the promise of getSession settles, the callbacks the subscriber has been
\* sent run, and each awaited storage call of each run comes back.  Nothing
\* obliges the backend to refresh a token.
ResolverProgress ==
    \/ GetSessionReturn(MaxRuns) /\ RecordStart /\ UNCHANGED <<mockVars, pageVars>>
    \/ AuthStateChange(MaxRuns) /\ RecordStart /\ UNCHANGED <<mockVars, pageVars>>
    \/ \E r \in 1..Len(res), o \in DbOutcomes :
          UpsertReturn(r, o) /\ RecordReturn(r, "upsert", o)
          /\ UNCHANGED <<mockVars, pageVars>>
    \/ \E r \in 1..Len(res), o \in DbOutcomes :
          ReadReturn(r, o) /\ RecordReturn(r, "read", o)
          /\ UNCHANGED <<mockVars, pageVars>>
    \/ \E r \in 1..Len(res), o \in DbOutcomes :
          InsertReturn(r, o) /\ RecordReturn(r, "insert", o)
          /\ UNCHANGED <<mockVars, pageVars>>

FairResolver == SpecResolver /\ WF_vars(ResolverProgress)

\* The redirect of one run of handleUserSession, over every role list the
\* user_roles relation can hold for the signed-in identity: the keys of
\* dashboardRoutes and a tag that is not a key, in every order.
RoleTags ==
    {"patient", "doctor", "clinic", "driver", "admin", "super_admin",
     "moderator", "unknown_role"}

RoleLists == UNION {[1..n -> RoleTags] : n \in 0..MaxRows}

InitRedirect ==
    /\ PagesConstructed
    /\ MockConstructed(SeedUsers)
    /\ user = NoUser
    /\ userRoles = <<>>
    /\ loading = TRUE
    /\ location \in StartLocations
    /\ session = "u1"
    /\ roleTable \in {[i \in 1..Len(l) |-> Row("u1", l[i])] : l \in RoleLists}
    /\ initQuery = [pending |-> TRUE, session |-> session]
    /\ queue = <<>>
    /\ res = <<>>
    /\ calls = <<>>
    /\ callsMade = 0
    /\ lastCall = [status |-> "none", error |-> "none"]
    /\ hist = <<>>

NextRedirect ==
    \/ GetSessionReturn(MaxRes) /\ RecordStart /\ UNCHANGED <<mockVars, pageVars>>
    \/ \E r \in 1..Len(res), o \in DbOutcomes :
          UpsertReturn(r, o) /\ RecordReturn(r, "upsert", o)
          /\ UNCHANGED <<mockVars, pageVars>>
    \/ \E r \in 1..Len(res), o \in DbOutcomes :
          ReadReturn(r, o) /\ RecordReturn(r, "read", o)
          /\ UNCHANGED <<mockVars, pageVars>>
    \/ \E r \in 1..Len(res), o \in DbOutcomes :
          InsertReturn(r, o) /\ RecordReturn(r, "insert", o)
          /\ UNCHANGED <<mockVars, pageVars>>

SpecRedirect == InitRedirect /\ [][NextRedirect]_vars

\* ---------------------------------------------------- MockAuthService ----
\* mockUsers.find(u => u.id === userId): the first record with the id.
FindUser(users, userId) ==
    LET hits == SelectSeq(users, LAMBDA u : u.id = userId)
    IN  IF hits = <<>> THEN NoAuthUser
        ELSE AuthUser(hits[1].id, hits[1].email, hits[1].full_name)

\* getUserRoles(userId)
GetUserRoles(userRolesData, userId) ==
    LET mine == SelectSeq(userRolesData, LAMBDA row : row.user_id = userId)
    IN  [i \in 1..Len(mine) |-> mine[i].role]

\* notifyListeners(user): every entry of listeners is called, in order.
NotifyListeners(authUser) ==
    /\ notified' = listeners
    /\ lastSeen' = [cb \in Callbacks |->
                      IF \E i \in 1..Len(listeners) : listeners[i] = cb
                      THEN authUser ELSE lastSeen[cb]]

\* The catch block of signUp / signIn: the error is returned, nothing else
\* happens.
ReturnError(op, error) ==
    /\ mockResult' = MockReturn(op, NoAuthUser, error)
    /\ notified' = <<>>
    /\ UNCHANGED <<mockUsers, mockUserRoles, mockCredentials, currentUser,
                   lastSeen>>

\* if (mockCredentials[email]) throw new Error('User already exists')
AlreadyExistsNever(email) == FALSE
AlreadyExists(email) == mockCredentials[email] # NoCredential

\* signUp(email, password, fullName)
MockSignUp(email, password, fullName) ==
    /\ IF AlreadyExists(email)
       THEN ReturnError("signUp", "User already exists")
       ELSE LET newUserId == UserId(clock)
                authUser == AuthUser(newUserId, email, fullName)
            IN  /\ mockUsers' = Append(mockUsers,
                       [id |-> newUserId, email |-> email, full_name |-> fullName])
                /\ mockUserRoles' = Append(mockUserRoles,
                       [id |-> RoleId(clock), user_id |-> newUserId,
                        role |-> "patient"])
                /\ mockCredentials' = [mockCredentials EXCEPT ![email] =
                       [password |-> password, userId |-> newUserId]]
                /\ currentUser' = authUser
                /\ NotifyListeners(authUser)
                /\ mockResult' = MockReturn("signUp", authUser, "null")
    /\ UNCHANGED <<listeners, subs, clock>>

\* The two throws of signIn, or none.
SignInFailureNoPassword(email, password) ==
    LET credentials == mockCredentials[email]
    IN  IF credentials = NoCredential
        THEN "Invalid email or password"
        ELSE IF FindUser(mockUsers, credentials.userId) = NoAuthUser
        THEN "User not found"
        ELSE "null"
SignInFailure(email, password) ==
    LET credentials == mockCredentials[email]
    IN  IF credentials = NoCredential \/ credentials.password # password
        THEN "Invalid email or password"
        ELSE IF FindUser(mockUsers, credentials.userId) = NoAuthUser
        THEN "User not found"
        ELSE "null"

\* signIn(email, password)
MockSignIn(email, password) ==
    /\ IF SignInFailure(email, password) # "null"
       THEN ReturnError("signIn", SignInFailure(email, password))
       ELSE LET authUser == FindUser(mockUsers, mockCredentials[email].userId)
            IN  /\ currentUser' = authUser
                /\ NotifyListeners(authUser)
                /\ mockResult' = MockReturn("signIn", authUser, "null")
                /\ UNCHANGED <<mockUsers, mockUserRoles, mockCredentials>>
    /\ UNCHANGED <<listeners, subs, clock>>

\* signOut()
MockSignOut ==
    /\ currentUser' = NoAuthUser
    /\ NotifyListeners(NoAuthUser)
    /\ mockResult' = MockReturn("signOut", NoAuthUser, "null")
    /\ UNCHANGED <<mockUsers, mockUserRoles, mockCredentials, listeners, subs,
                   clock>>

\* onAuthStateChange(callback): the callback is appended and called with the
\* current user; the closure returned remembers the callback.
Subscribe(callback, cap) ==
    /\ Len(subs) < cap
    /\ listeners' = Append(listeners, callback)
    /\ lastSeen' = [lastSeen EXCEPT ![callback] = currentUser]
    /\ notified' = <<callback>>
    /\ subs' = Append(subs, [callback |-> callback, called |-> FALSE])
    /\ mockResult' = MockReturn("onAuthStateChange", NoAuthUser, "null")
    /\ UNCHANGED <<mockUsers, mockUserRoles, mockCredentials, currentUser, clock>>

\* The closure onAuthStateChange returned as its h-th result is called:
\* listeners.filter(listener => listener !== callback).  The field called
\* is history.
Unsubscribe(h) ==
    /\ listeners' = SelectSeq(listeners, LAMBDA l : l # subs[h].callback)
    /\ subs' = [subs EXCEPT ![h].called = TRUE]
    /\ notified' = <<>>
    /\ mockResult' = MockReturn("unsubscribe", NoAuthUser, "null")
    /\ UNCHANGED <<mockUsers, mockUserRoles, mockCredentials, currentUser,
                   clock, lastSeen>>

\* A millisecond passes.
Tick ==
    /\ clock < MaxClock
    /\ clock' = clock + 1
    /\ UNCHANGED <<mockUsers, mockUserRoles, mockCredentials, currentUser,
                   listeners, subs, lastSeen, notified, mockResult>>

\* History: the successful signUp that nothing but signOut calls have
\* followed, with the arguments it was given.
RecordSignUp(email, password) ==
    lastSignUp' =
       IF mockResult'.error = "null"
       THEN [email |-> email, password |-> password, user |-> mockResult'.user]
       ELSE NoSignUp
RecordSignOut == UNCHANGED lastSignUp
RecordOther == lastSignUp' = NoSignUp

\* The service in use, no provider mounted.
InitMock ==
    /\ PagesConstructed
    /\ MockConstructed(SeedUsers) \/ MockConstructed(<<>>)
    /\ user = NoUser
    /\ userRoles = <<>>
    /\ loading = TRUE
    /\ location = PathRoot
    /\ session = NoSession
    /\ roleTable = <<>>
    /\ initQuery = [pending |-> TRUE, session |-> session]
    /\ queue = <<>>
    /\ res = <<>>
    /\ calls = <<>>
    /\ callsMade = 0
    /\ lastCall = [status |-> "none", error |-> "none"]
    /\ hist = <<>>

NextMock ==
    \/ \E e \in Emails, p \in Passwords, n \in FullNames :
          MockSignUp(e, p, n) /\ RecordSignUp(e, p) /\ UNCHANGED <<providerVars, pageVars>>
    \/ \E e \in Emails, p \in Passwords :
          MockSignIn(e, p) /\ RecordOther /\ UNCHANGED <<providerVars, pageVars>>
    \/ MockSignOut /\ RecordSignOut /\ UNCHANGED <<providerVars, pageVars>>
    \/ \E cb \in Callbacks :
          Subscribe(cb, MaxListeners) /\ RecordOther /\ UNCHANGED <<providerVars, pageVars>>
    \/ \E h \in 1..Len(subs) :
          Unsubscribe(h) /\ RecordOther /\ UNCHANGED <<providerVars, pageVars>>
    \/ Tick /\ UNCHANGED <<lastSignUp, providerVars, pageVars>>

SpecMock == InitMock /\ [][NextMock]_vars

\* The listeners of the service: subscriptions and cancellations in any
\* order, between sign-ups, sign-ins and sign-outs of two accounts.
NextListeners ==
    \/ \E e \in {"a@x", "b@x"}, p \in {"pw1"}, n \in FullNames :
          MockSignUp(e, p, n) /\ RecordSignUp(e, p) /\ UNCHANGED <<providerVars, pageVars>>
    \/ \E e \in {"a@x", "b@x"}, p \in Passwords :
          MockSignIn(e, p) /\ RecordOther /\ UNCHANGED <<providerVars, pageVars>>
    \/ MockSignOut /\ RecordSignOut /\ UNCHANGED <<providerVars, pageVars>>
    \/ \E cb \in Callbacks :
          Subscribe(cb, MaxSubs) /\ RecordOther /\ UNCHANGED <<providerVars, pageVars>>
    \/ \E h \in 1..Len(subs) :
          Unsubscribe(h) /\ RecordOther /\ UNCHANGED <<providerVars, pageVars>>

SpecListeners == InitMock /\ [][NextListeners]_vars

\* ------------------------------------------------------ pharmacy page ----
\* loadMedicines(), started by the mount effect, has run to its end: the
\* catalogue the backend returned, or none when the backend is not configured
\* or the query failed.
LoadMedicines(outcome, data) ==
    /\ pageLoading
    /\ medicines' = IF supabaseConfigured /\ outcome = "ok" THEN data ELSE <<>>
    /\ cartToast' = IF supabaseConfigured /\ outcome # "ok"
                    THEN "Failed to load medicines" ELSE cartToast
    /\ pageLoading' = FALSE
    /\ UNCHANGED <<cart, checkouts, orders, orderItems>>

\* addToCart(medicine)
AddToCart(medicine) ==
    /\ IF user = NoUser
       THEN /\ cartToast' = "Please login to add items to cart"
            /\ UNCHANGED cart
       ELSE /\ cart' = AddedToCart(cart, medicine)
            /\ cartToast' = "added to cart"
    /\ UNCHANGED <<medicines, pageLoading, checkouts, orders, orderItems>>

\* updateQuantity(medicineId, newQuantity)
UpdateQuantity(medicineId, newQuantity) ==
    /\ cart' = QuantityUpdated(cart, medicineId, newQuantity)
    /\ UNCHANGED <<medicines, pageLoading, cartToast, checkouts, orders, orderItems>>

\* A call of handleCheckout that has sent its order insert: the cart of the
\* render it was called from stays in its closure.
NewCheckout(items, userId) ==
    [pc |-> "order", cart |-> items, user_id |-> userId,
     total_amount |-> TotalPrice(items), order_id |-> 0]

\* handleCheckout(), up to its first await.
HandleCheckout(cap) ==
    /\ Len(checkouts) < cap
    /\ IF cart = <<>>
       THEN /\ cartToast' = "Your cart is empty"
            /\ UNCHANGED checkouts
       ELSE IF ~supabaseConfigured
       THEN /\ cartToast' = "Database not configured. Please set up Supabase."
            /\ UNCHANGED checkouts
       ELSE IF user = NoUser
       THEN /\ cartToast' = "Failed to place order. Please try again."
            /\ UNCHANGED checkouts
       ELSE /\ checkouts' = Append(checkouts, NewCheckout(cart, user.id))
            /\ UNCHANGED cartToast
    /\ UNCHANGED <<medicines, cart, pageLoading, orders, orderItems>>

\* The catch block of handleCheckout.
CheckoutFailed(k) ==
    /\ checkouts' = [checkouts EXCEPT ![k].pc = "failed"]
    /\ cartToast' = "Failed to place order. Please try again."
    /\ UNCHANGED cart

\* The awaited orders.insert(...).select().single() comes back; on success
\* the order_items insert is sent.
OrderReturn(k, outcome) ==
    /\ checkouts[k].pc = "order"
    /\ IF outcome = "ok"
       THEN LET id == Len(orders) + 1
            IN  /\ orders' = Append(orders,
                       [id |-> id, user_id |-> checkouts[k].user_id,
                        total_amount |-> checkouts[k].total_amount])
                /\ checkouts' = [checkouts EXCEPT ![k].pc = "items",
                                                  ![k].order_id = id]
                /\ UNCHANGED <<cart, cartToast>>
       ELSE /\ CheckoutFailed(k)
            /\ UNCHANGED orders
    /\ UNCHANGED <<medicines, pageLoading, orderItems>>

\* setCart([]) after both inserts succeeded.
CartAfterOrderKept == cart
CartAfterOrder == <<>>

\* The awaited order_items.insert(orderItems) comes back.
ItemsReturn(k, outcome) ==
    /\ checkouts[k].pc = "items"
    /\ IF outcome = "ok"
       THEN /\ orderItems' = orderItems \o
                   OrderItemsOf(checkouts[k].cart, checkouts[k].order_id)
            /\ checkouts' = [checkouts EXCEPT ![k].pc = "placed"]
            /\ cartToast' = "Order placed successfully!"
            /\ cart' = CartAfterOrder
       ELSE /\ CheckoutFailed(k)
            /\ UNCHANGED orderItems
    /\ UNCHANGED <<medicines, pageLoading, orders>>

\* The page renders its controls: neither spinner condition holds.
PageShown == ~loading /\ ~pageLoading

\* The cart item the card of the medicine renders: cart.find(...).
CartItemOf(medicine) ==
    cart[CHOOSE i \in 1..Len(cart) :
            /\ cart[i].id = medicine.id
            /\ \A j \in 1..(i - 1) : cart[j].id # medicine.id]

\* disabled={cartItem.quantity >= medicine.stock_quantity}
PlusDisabledAbove(medicine) == CartItemOf(medicine).quantity > medicine.stock_quantity
PlusDisabled(medicine) == CartItemOf(medicine).quantity >= medicine.stock_quantity

\* A click on Add to Cart, shown for a medicine with no cart item, enabled
\* unless the stock is 0.
ClickAdd(medicine) ==
    /\ PageShown
    /\ ~InCart(cart, medicine.id)
    /\ medicine.stock_quantity # 0
    /\ AddToCart(medicine)

\* A click on the plus button of a medicine in the cart.
ClickPlus(medicine) ==
    /\ PageShown
    /\ InCart(cart, medicine.id)
    /\ ~PlusDisabled(medicine)
    /\ UpdateQuantity(medicine.id, CartItemOf(medicine).quantity + 1)

\* A click on the minus button of a medicine in the cart.
ClickMinus(medicine) ==
    /\ PageShown
    /\ InCart(cart, medicine.id)
    /\ UpdateQuantity(medicine.id, CartItemOf(medicine).quantity - 1)

\* A click on Proceed to Checkout, shown while the cart has items.
ClickCheckout ==
    /\ PageShown
    /\ cart # <<>>
    /\ HandleCheckout(MaxCheckouts)

\* --------------------------------------------------- admin setup page ----
\* handleInputChange: one field of the form takes the typed value.
HandleInputChange(name, value) ==
    /\ formData' = [formData EXCEPT ![name] = value]
    /\ UNCHANGED <<adminLoading, success, submissions, adminToast,
                   redirectTimer, adminRoute>>

\* The checks of handleSubmit, in order: the toast of the first that fails,
\* or "none".
RejectionNoLength ==
    IF ~supabaseConfigured
    THEN "Please configure Supabase environment variables first"
    ELSE IF formData.email = "" \/ formData.password = <<>> \/ formData.fullName = ""
    THEN "Please fill in all fields"
    ELSE IF formData.password # formData.confirmPassword
    THEN "Passwords do not match"
    ELSE "none"
Rejection ==
    IF ~supabaseConfigured
    THEN "Please configure Supabase environment variables first"
    ELSE IF formData.email = "" \/ formData.password = <<>> \/ formData.fullName = ""
    THEN "Please fill in all fields"
    ELSE IF formData.password # formData.confirmPassword
    THEN "Passwords do not match"
    ELSE IF Len(formData.password) < MinPasswordLength
    THEN "Password must be at least 8 characters"
    ELSE "none"

\* A call of handleSubmit that has called AdminService.createSuperAdmin.
NewSubmission ==
    [pc |-> "create", email |-> formData.email, password |-> formData.password,
     fullName |-> formData.fullName]

\* handleSubmit(e), up to its await.
HandleSubmit ==
    /\ IF Rejection # "none"
       THEN /\ adminToast' = Rejection
            /\ UNCHANGED <<adminLoading, submissions>>
       ELSE /\ Len(submissions) < MaxSubmissions
            /\ adminLoading' = TRUE
            /\ submissions' = Append(submissions, NewSubmission)
            /\ UNCHANGED adminToast
    /\ UNCHANGED <<formData, success, redirectTimer, adminRoute>>

\* The awaited createSuperAdmin settles: the rest of the try, or the catch,
\* and the finally block.
CreateReturn(k, outcome) ==
    /\ submissions[k].pc = "create"
    /\ submissions' = [submissions EXCEPT ![k].pc = outcome]
    /\ success' = IF outcome = "resolve" THEN TRUE ELSE success
    /\ redirectTimer' = IF outcome = "resolve" THEN TRUE ELSE redirectTimer
    /\ adminToast' =
          CASE outcome = "resolve" -> "Super admin account created successfully!"
            [] outcome = "already exists" ->
                  "Super admin already exists. Please login instead."
            [] outcome = "failed" -> "Failed to create admin account"
            [] OTHER -> adminToast
    /\ adminRoute' = IF outcome = "already exists" THEN PathAuthLogin ELSE adminRoute
    /\ adminLoading' = FALSE
    /\ UNCHANGED formData

\* The timer of the success branch fires: router.push('/auth/login').
RedirectTimerFires ==
    /\ redirectTimer
    /\ redirectTimer' = FALSE
    /\ adminRoute' = PathAuthLogin
    /\ UNCHANGED <<formData, adminLoading, success, submissions, adminToast>>

\* The form is on screen and its inputs are enabled.
FormEnabled ==
    /\ supabaseConfigured
    /\ ~success
    /\ ~adminLoading
    /\ adminRoute = PathSetupAdmin

InitAdmin ==
    /\ Init
    /\ supabaseConfigured \in BOOLEAN

notAdmin == <<providerVars, mockVars, supabaseConfigured, cartVars>>

\* The admin setup page: the user types while the form is enabled, and
\* handleSubmit is called with whatever the form holds.
NextAdmin ==
    \/ \E v \in TypedEmails :
          FormEnabled /\ HandleInputChange("email", v) /\ UNCHANGED notAdmin
    \/ \E v \in TypedPasswords :
          FormEnabled /\ HandleInputChange("password", v) /\ UNCHANGED notAdmin
    \/ \E v \in TypedPasswords :
          FormEnabled /\ HandleInputChange("confirmPassword", v) /\ UNCHANGED notAdmin
    \/ \E v \in TypedNames :
          FormEnabled /\ HandleInputChange("fullName", v) /\ UNCHANGED notAdmin
    \/ adminRoute = PathSetupAdmin /\ HandleSubmit /\ UNCHANGED notAdmin
    \/ \E k \in 1..Len(submissions), o \in CreateOutcomes :
          CreateReturn(k, o) /\ UNCHANGED notAdmin
    \/ RedirectTimerFires /\ UNCHANGED notAdmin

SpecAdmin == InitAdmin /\ [][NextAdmin]_vars

\* The provider as the pharmacy page finds it: the bootstrap is over, with a
\* patient signed in or with nobody signed in; the backend may already have
\* ended the session and sent the notification that says so.
ProviderSettled ==
    /\ location = <<"/", "p", "h", "a", "r", "m", "a", "c", "y">>
    /\ loading = FALSE
    /\ initQuery = [pending |-> FALSE, session |-> NoSession]
    /\ calls = <<>>
    /\ callsMade = 0
    /\ lastCall = [status |-> "none", error |-> "none"]
    /\ hist = <<>>
    /\ \/ /\ user = NoUser
          /\ userRoles = <<>>
          /\ session = NoSession
          /\ roleTable = <<>>
          /\ res = <<>>
          /\ queue = <<>>
       \/ /\ user = UserWithRoles("u1", <<"patient">>)
          /\ userRoles = <<"patient">>
          /\ roleTable = <<Row("u1", "patient")>>
          /\ res = <<DoneRun>>
          /\ \/ session = "u1" /\ queue = <<>>
             \/ session = NoSession /\ queue = <<NoSession>>

InitPharmacy ==
    /\ ProviderSettled
    /\ MockConstructed(SeedUsers)
    /\ supabaseConfigured \in BOOLEAN
    /\ PharmacyConstructed
    /\ AdminConstructed

notPharmacy == <<mockVars, supabaseConfigured, adminVars>>

\* The pharmacy page under the clicks its controls allow.
NextPharmacy ==
    \/ \E o \in DbOutcomes, data \in StartMedicines :
          LoadMedicines(o, data) /\ UNCHANGED <<providerVars, notPharmacy>>
    \/ \E i \in 1..Len(medicines) :
          ClickAdd(medicines[i]) /\ UNCHANGED <<providerVars, notPharmacy>>
    \/ \E i \in 1..Len(medicines) :
          ClickPlus(medicines[i]) /\ UNCHANGED <<providerVars, notPharmacy>>
    \/ \E i \in 1..Len(medicines) :
          ClickMinus(medicines[i]) /\ UNCHANGED <<providerVars, notPharmacy>>
    \/ ClickCheckout /\ UNCHANGED <<providerVars, notPharmacy>>
    \/ \E k \in 1..Len(checkouts), o \in DbOutcomes :
          OrderReturn(k, o) /\ UNCHANGED <<providerVars, notPharmacy>>
    \/ \E k \in 1..Len(checkouts), o \in DbOutcomes :
          ItemsReturn(k, o) /\ UNCHANGED <<providerVars, notPharmacy>>
    \/ AuthStateChange(MaxRes) /\ UNCHANGED <<hist, cartVars, notPharmacy>>

SpecPharmacy == InitPharmacy /\ [][NextPharmacy]_vars

\* addToCart and updateQuantity called in any order with any arguments: any
\* medicine of a catalogue, any quantity from -1 to MaxQuantity.
NextCartCalls ==
    \/ \E o \in DbOutcomes, data \in StartMedicines :
          LoadMedicines(o, data) /\ UNCHANGED <<providerVars, notPharmacy>>
    \/ \E m \in Catalogue :
          /\ \A i \in 1..Len(cart) : cart[i].id = m.id => cart[i].quantity < MaxQuantity
          /\ AddToCart(m)
          /\ UNCHANGED <<providerVars, notPharmacy>>
    \/ \E m \in Catalogue, q \in -1..MaxQuantity :
          UpdateQuantity(m.id, q) /\ UNCHANGED <<providerVars, notPharmacy>>
    \/ AuthStateChange(MaxRes) /\ UNCHANGED <<hist, cartVars, notPharmacy>>

SpecCartCalls == InitPharmacy /\ [][NextCartCalls]_vars

\* The cart under the clicks its controls allow, with handleCheckout called
\* at any time, whether or not its button is shown.
NextCheckout ==
    \/ \E o \in DbOutcomes, data \in StartMedicines :
          LoadMedicines(o, data) /\ UNCHANGED <<providerVars, notPharmacy>>
    \/ \E i \in 1..Len(medicines) :
          ClickAdd(medicines[i]) /\ UNCHANGED <<providerVars, notPharmacy>>
    \/ \E i \in 1..Len(medicines) :
          ClickPlus(medicines[i]) /\ UNCHANGED <<providerVars, notPharmacy>>
    \/ \E i \in 1..Len(medicines) :
          ClickMinus(medicines[i]) /\ UNCHANGED <<providerVars, notPharmacy>>
    \/ HandleCheckout(MaxCheckouts) /\ UNCHANGED <<providerVars, notPharmacy>>
    \/ \E k \in 1..Len(checkouts), o \in DbOutcomes :
          OrderReturn(k, o) /\ UNCHANGED <<providerVars, notPharmacy>>
    \/ \E k \in 1..Len(checkouts), o \in DbOutcomes :
          ItemsReturn(k, o) /\ UNCHANGED <<providerVars, notPharmacy>>
    \/ AuthStateChange(MaxRes) /\ UNCHANGED <<hist, cartVars, notPharmacy>>

SpecCheckout == InitPharmacy /\ [][NextCheckout]_vars

\* ------------------------------------------------------------- claims ----
Runs == 1..Len(res)
Returned(r) == res[r].pc = "done"
\* The role tags of the rows a role read returned, in the order returned.
TagsOf(rolesData) == [i \in 1..Len(rolesData) |-> rolesData[i].role]
\* The step is the return of the entry-point call calls[i].
Returns(i) == calls' = RemoveAt(calls, i)

\* C1: in every reachable state of the provider, under any interleaving of
\* the initial session query, notifications, role resolutions, signIn, signUp
\* and signOut: if loading is false and user is non-null, userRoles is
\* non-empty.
C1_RolesNonEmpty == (~loading /\ user # NoUser) => Len(userRoles) > 0

\* C1 witness: a user is stored and loading is over after an entry-point call
\* has been made.
C1_Witness == ~loading /\ user # NoUser /\ callsMade > 0

\* C2 (as claimed): a run of handleUserSession that was in flight when a
\* signOut completed successfully writes neither user nor userRoles when it
\* returns.
C2_SupersededRunWritesNothing ==
    [][\A r \in Runs :
         (res[r].superseded /\ res'[r].pc = "done")
            => (user' = user /\ userRoles' = userRoles)]_vars

\* C3: a run whose role read succeeds with zero rows ends with the role list
\* <<"patient">> and has sent exactly one insert, for its own identity,
\* whether the insert succeeded, returned an error or threw.
C3_ZeroRowsDefaultRole ==
    \A r \in Runs :
       (Returned(r) /\ hist[r].read = "ok" /\ hist[r].rolesData = <<>>)
          => /\ hist[r].roles = <<"patient">>
             /\ hist[r].inserts = 1
             /\ hist[r].insert \in DbOutcomes
             /\ hist[r].insert = "ok" =>
                   \E k \in 1..Len(roleTable) :
                      roleTable[k] = Row(hist[r].authUser, "patient")

\* C3 witness: a run that read zero rows has returned after its insert
\* returned an error.
C3_Witness ==
    \E r \in Runs :
       /\ Returned(r)
       /\ hist[r].read = "ok"
       /\ hist[r].rolesData = <<>>
       /\ hist[r].insert = "error"

\* C4: a run whose role read succeeds with one or more rows ends with
\* precisely the role tags returned, in the order returned, and sends no
\* insert.
C4_StoredRolesUnchanged ==
    \A r \in Runs :
       (Returned(r) /\ hist[r].read = "ok" /\ Len(hist[r].rolesData) >= 1)
          => /\ hist[r].roles = TagsOf(hist[r].rolesData)
             /\ hist[r].inserts = 0
             /\ hist[r].insert = "none"

\* C4 witness: a run that read two rows with different tags has returned.
C4_Witness ==
    \E r \in Runs :
       /\ Returned(r)
       /\ hist[r].read = "ok"
       /\ Len(hist[r].rolesData) = 2
       /\ hist[r].rolesData[1] # hist[r].rolesData[2]

\* C5: a run whose role read fails (error result or exception) ends with the
\* role list <<"patient">>, sends no insert, and its promise is fulfilled.
C5_ReadFailureFallsBack ==
    \A r \in Runs :
       (Returned(r) /\ hist[r].read \in {"error", "throw"})
          => /\ hist[r].roles = <<"patient">>
             /\ hist[r].inserts = 0
             /\ hist[r].settled = "fulfilled"

\* C5 witness: a run whose role read returned an error, for an identity that
\* has role rows, has returned.
C5_Witness ==
    \E r \in Runs :
       /\ Returned(r)
       /\ hist[r].read = "error"
       /\ SelectRoles(roleTable, hist[r].authUser) # <<>>

\* What the role read of run r determines: the stored tags if it returned
\* any, otherwise <<"patient">>.
RolesTheReadDetermines(r) ==
    IF hist[r].read = "ok" /\ Len(hist[r].rolesData) >= 1
    THEN TagsOf(hist[r].rolesData)
    ELSE <<"patient">>

\* C6 (as claimed): whenever the upsert of a run fails, by an error result or
\* by an exception, the run goes on to the role read, and it ends with its
\* identity stored and the role list the role read determines.
C6_UpsertFailureContinues ==
    \A r \in Runs :
       (Returned(r) /\ hist[r].upsert \in {"error", "throw"})
          => /\ hist[r].read # "none"
             /\ hist[r].stored.id = hist[r].authUser
             /\ hist[r].roles = RolesTheReadDetermines(r)

\* C6 (amended): when the upsert returns an error the run goes on to the role
\* read and ends with its identity stored and the role list the role read
\* determines; when the upsert throws, the role read and the insert are
\* skipped and the run ends with its identity stored and <<"patient">>.
C6_UpsertFailureNonFatal ==
    \A r \in Runs :
       /\ hist[r].upsert = "error" => res[r].pc \in {"read", "insert", "done"}
       /\ (Returned(r) /\ hist[r].upsert = "error")
             => /\ hist[r].read # "none"
                /\ hist[r].stored.id = hist[r].authUser
                /\ hist[r].roles = RolesTheReadDetermines(r)
                /\ hist[r].settled = "fulfilled"
       /\ hist[r].upsert = "throw"
             => /\ Returned(r)
                /\ hist[r].read = "none"
                /\ hist[r].inserts = 0
                /\ hist[r].stored.id = hist[r].authUser
                /\ hist[r].roles = <<"patient">>
                /\ hist[r].settled = "fulfilled"

\* C6 witness: a run whose upsert returned an error has returned with the two
\* stored roles its role read found.
C6_Witness ==
    \E r \in Runs :
       /\ Returned(r)
       /\ hist[r].upsert = "error"
       /\ hist[r].read = "ok"
       /\ Len(hist[r].roles) = 2

\* C7: for every combination of outcomes of the upsert, the role read and the
\* insert, a run that has returned has a fulfilled promise, stored its
\* identity with a non-empty role list, and left loading false.
C7_NeverFailsOutward ==
    \A r \in Runs :
       Returned(r)
          => /\ hist[r].settled = "fulfilled"
             /\ hist[r].stored.id = hist[r].authUser
             /\ hist[r].authUser \in Identities
             /\ Len(hist[r].stored.user_roles) > 0
             /\ Len(hist[r].roles) > 0
             /\ hist[r].loadingAfter = FALSE

\* C7 witness: two runs have returned, one after an upsert error, a read of
\* zero rows and a thrown insert, the other after a thrown role read.
C7_Witness ==
    /\ \E r \in Runs :
          /\ Returned(r)
          /\ hist[r].upsert = "error"
          /\ hist[r].read = "ok"
          /\ hist[r].insert = "throw"
    /\ \E r \in Runs : Returned(r) /\ hist[r].read = "throw"

\* C8: the return of a signIn call whose credentials the backend rejected
\* rejects with the backend's error and leaves user, userRoles and loading
\* as they were.
C8_FailedSignInKeepsState ==
    [][\A i \in 1..Len(calls) :
         (calls[i].op = "signIn" /\ calls[i].outcome # "ok" /\ Returns(i))
            => /\ lastCall' = [status |-> "rejected", error |-> calls[i].outcome]
               /\ user' = user
               /\ userRoles' = userRoles
               /\ loading' = loading]_vars

\* C8 witness: a signIn has been rejected for invalid credentials while a
\* user was, and still is, stored.
C8_Witness ==
    /\ lastCall = [status |-> "rejected", error |-> "invalid_credentials"]
    /\ user # NoUser
    /\ ~loading

\* C9: the return of a signOut call that the backend failed rejects with the
\* backend's error, leaves user, userRoles and loading as they were, and
\* leaves the location as it was.
C9_FailedSignOutKeepsState ==
    [][\A i \in 1..Len(calls) :
         (calls[i].op = "signOut" /\ calls[i].outcome # "ok" /\ Returns(i))
            => /\ lastCall' = [status |-> "rejected", error |-> calls[i].outcome]
               /\ user' = user
               /\ userRoles' = userRoles
               /\ loading' = loading
               /\ location' = location]_vars

\* C9 witness: a signOut has been rejected for a network failure while a user
\* is stored away from the root path.
C9_Witness ==
    /\ lastCall = [status |-> "rejected", error |-> "network_failure"]
    /\ user # NoUser
    /\ location # PathRoot

\* C10 (as claimed): on the return of a signOut call that the backend
\* accepted, from whatever state, user is null, userRoles is empty and
\* loading is false.
C10_SignOutReachesAnonymous ==
    [][\A i \in 1..Len(calls) :
         (calls[i].op = "signOut" /\ calls[i].outcome = "ok" /\ Returns(i))
            => /\ user' = NoUser
               /\ userRoles' = <<>>
               /\ loading' = FALSE]_vars

\* The step handles the result of the initial getSession query.
HandlesInitialQuery == initQuery.pending /\ ~initQuery'.pending
\* The step handles the oldest undelivered session-change notification.
HandlesNotification == queue # <<>> /\ queue' = Tail(queue)
\* The step is the return of run r of handleUserSession.
Returning(r) == res[r].pc # "done" /\ res'[r].pc = "done"

\* C11 (as claimed): immediately after a null session reported by the initial
\* query or by a notification is handled, from any state, user is null,
\* userRoles is empty and loading is false.
C11_NullReportReachesAnonymous ==
    [][(\/ HandlesInitialQuery /\ initQuery.session = NoSession
        \/ HandlesNotification /\ Head(queue) = NoSession)
          => (user' = NoUser /\ userRoles' = <<>> /\ loading' = FALSE)]_vars

\* C11 (amended): immediately after a null session reported by a notification
\* is handled, from any state, user is null, userRoles is empty and loading
\* is false; after a null result of the initial query is handled, loading is
\* false and user and userRoles are as they were.
C11_NullReportHandled ==
    [][/\ (HandlesNotification /\ Head(queue) = NoSession)
             => (user' = NoUser /\ userRoles' = <<>> /\ loading' = FALSE)
       /\ (HandlesInitialQuery /\ initQuery.session = NoSession)
             => (user' = user /\ userRoles' = userRoles /\ loading' = FALSE)]_vars

\* C11 witness: a null notification has been handled while a user was stored:
\* the backend has ended the session on signOut, nothing is left to deliver,
\* the signOut call itself has not returned, and the state is Anonymous.
C11_Witness ==
    /\ \E i \in 1..Len(calls) : calls[i] = NewCall("signOut", "ok")
    /\ queue = <<>>
    /\ initQuery.session # NoSession
    /\ \E r \in Runs : Returned(r)
    /\ user = NoUser /\ userRoles = <<>> /\ ~loading

\* C12 (as claimed): when a run of handleUserSession returns while a run
\* requested after it exists, it writes neither user nor userRoles: only the
\* most recently requested resolution may write them.
C12_OnlyLatestRunWrites ==
    [][\A r \in Runs :
         (Returning(r) /\ r < Len(res))
            => (user' = user /\ userRoles' = userRoles)]_vars

\* C13: the call and the return of signIn and signUp, accepted or rejected,
\* leave user, userRoles and loading as they were; a non-null user is stored
\* only by the return of a run of handleUserSession, for the identity of that
\* run, and a run is started only by the handler of the initial query or of a
\* notification that carries a non-null session, for the identity it carries.
C13_SignInWritesNoState ==
    [][/\ (\/ /\ Len(calls') > Len(calls)
              /\ calls'[Len(calls')].op \in {"signIn", "signUp"}
           \/ \E i \in 1..Len(calls) :
                 calls[i].op \in {"signIn", "signUp"} /\ Returns(i))
             => (user' = user /\ userRoles' = userRoles /\ loading' = loading)
       /\ (user' # user /\ user' # NoUser)
             => \E r \in Runs : Returning(r) /\ user'.id = res[r].authUser
       /\ Len(res') > Len(res)
             => \/ /\ HandlesInitialQuery
                   /\ initQuery.session # NoSession
                   /\ res'[Len(res')].authUser = initQuery.session
                \/ /\ HandlesNotification
                   /\ Head(queue) # NoSession
                   /\ res'[Len(res')].authUser = Head(queue)]_vars

\* C13 witness: the provider mounted without a session, a signIn or signUp was
\* accepted and has returned, and the user of the new session is stored.
C13_Witness ==
    /\ initQuery.session = NoSession
    /\ lastCall.status = "fulfilled"
    /\ session \in Identities
    /\ user.id = session

\* The root path, or a path that begins with the six characters of "/auth/".
EntryLocation(path) ==
    \/ path = <<"/">>
    \/ Len(path) >= 6 /\ SubSeq(path, 1, 6) = <<"/", "a", "u", "t", "h", "/">>

\* C14: the step in which a run of handleUserSession returns moves the
\* location if and only if the location is the root path or a path under
\* "/auth/", and then to a dashboard; from any other location the run leaves
\* the location as it is.
C14_RedirectOnlyFromEntry ==
    [][\A r \in Runs :
          Returning(r)
             => /\ location' # location <=> EntryLocation(location)
                /\ ~EntryLocation(location) => location' = location
                /\ EntryLocation(location) => StartsWith(location', PathDash)]_vars

\* C14 witness: a first run with primary role "driver" has returned and moved
\* the location to the driver dashboard, and a second run that fell back to
\* ["patient"] has returned after it and has left the location there.
C14_Witness ==
    /\ Len(res) = 2
    /\ Returned(1) /\ Returned(2)
    /\ hist[1].roles # <<>> /\ hist[1].roles[1] = "driver"
    /\ hist[2].roles = <<"patient">>
    /\ userRoles = <<"patient">>
    /\ location = PathDriver

\* The dashboard of a role tag, as the specification tabulates it.
DashboardOf(role) ==
    LET dashboard == <<"/", "d", "a", "s", "h", "b", "o", "a", "r", "d", "/">>
        patient == <<"p", "a", "t", "i", "e", "n", "t">>
        admin == <<"a", "d", "m", "i", "n">>
        own == [doctor |-> <<"d", "o", "c", "t", "o", "r">>,
                clinic |-> <<"c", "l", "i", "n", "i", "c">>,
                driver |-> <<"d", "r", "i", "v", "e", "r">>,
                moderator |-> <<"m", "o", "d", "e", "r", "a", "t", "o", "r">>]
    IN  IF role \in DOMAIN own THEN dashboard \o own[role]
        ELSE IF role \in {"admin", "super_admin"} THEN dashboard \o admin
        ELSE dashboard \o patient

\* C15: the redirect target is the dashboard of the first role of the role
\* list and of nothing else: for every role list, the empty one included, the
\* target is the dashboard of its first role (the patient dashboard when the
\* role is unknown or absent), and a run that returns at the root path or at a
\* path under "/auth/" moves the location to the dashboard of the first role
\* it stored.
C15_TargetFromPrimaryRole ==
    /\ [](\A l \in RoleLists :
             RedirectPath(l) = DashboardOf(IF l = <<>> THEN "absent" ELSE Head(l)))
    /\ [][\A r \in Runs :
             (Returning(r) /\ EntryLocation(location))
                => location' = DashboardOf(Head(userRoles'))]_vars

\* C15 witness: a run that resolved the roles super_admin, doctor in that
\* order has returned and the location is "/dashboard/admin", where only a
\* redirect leads.
C15_Witness ==
    \E r \in Runs :
       /\ Returned(r)
       /\ hist[r].roles = <<"super_admin", "doctor">>
       /\ userRoles = <<"super_admin", "doctor">>
       /\ location = PathAdmin

\* C16: the provider starts with user null, userRoles empty and loading
\* true; when every backend call eventually returns, loading eventually becomes
\* false, with user null and userRoles empty if the initial session is absent,
\* and with the user of the initial session and the role list some returned
\* run resolved for it if the initial session is present.
C16_LoadingEnds ==
    /\ (user = NoUser /\ userRoles = <<>> /\ loading = TRUE)
    /\ initQuery.session = NoSession
          => <>(user = NoUser /\ userRoles = <<>> /\ ~loading)
    /\ initQuery.session # NoSession
          => <>(/\ ~loading
                /\ user.id = initQuery.session
                /\ TagsOf(user.user_roles) = userRoles
                /\ \E r \in Runs : Returned(r) /\ hist[r].roles = userRoles)

\* C16 witness: the initial session was present, the answer of the initial
\* query and every notification have been handled, every run has returned,
\* and loading is false with the user of the initial session stored.
C16_Witness ==
    /\ initQuery.session # NoSession
    /\ ~initQuery.pending
    /\ queue = <<>>
    /\ Len(res) = MaxRuns
    /\ \A r \in Runs : Returned(r)
    /\ ~loading
    /\ user.id = initQuery.session

\* The mock service has a user record with the id.
HasUser(userId) == \E i \in 1..Len(mockUsers) : mockUsers[i].id = userId

\* C17: a call of MockAuthService.signIn returns a user and no error exactly
\* when the credential table has an entry for the email, the entry's password
\* is the given one and a user record with the entry's userId exists; in every
\* other case the promise is fulfilled with {user: null, error}, currentUser
\* is unchanged and no listener is called.
C17_SignInSucceedsExactlyWhen ==
    [][\A e \in Emails, p \in Passwords :
          MockSignIn(e, p)
             => LET entry == mockCredentials[e]
                    ok == /\ entry # NoCredential
                          /\ entry.password = p
                          /\ HasUser(entry.userId)
                IN  /\ mockResult'.settled = "fulfilled"
                    /\ ok <=> (mockResult'.error = "null"
                                  /\ mockResult'.user # NoAuthUser)
                    /\ ok => /\ currentUser' = mockResult'.user
                             /\ mockResult'.user.id = entry.userId
                    /\ ~ok => /\ mockResult'.user = NoAuthUser
                              /\ mockResult'.error # "null"
                              /\ currentUser' = currentUser
                              /\ notified' = <<>>
                              /\ lastSeen' = lastSeen]_vars

\* C17 witness: with a user signed in and a listener subscribed, signIn for
\* an email whose credential points to no user record has returned
\* 'User not found'; the earlier user is still current.
C17_Witness ==
    /\ mockResult.op = "signIn"
    /\ mockResult.error = "User not found"
    /\ mockResult.user = NoAuthUser
    /\ currentUser # NoAuthUser
    /\ listeners # <<>>
    /\ lastSeen[listeners[1]] = currentUser

\* C18: a call of MockAuthService.signUp with an email that has a credential
\* entry fulfils its promise with {user: null, error 'User already exists'} and
\* leaves the user list, the role list, the credential table and currentUser
\* as they were, and calls no listener.
C18_SignUpExistingEmail ==
    [][\A e \in Emails, p \in Passwords, n \in FullNames :
          (MockSignUp(e, p, n) /\ mockCredentials[e] # NoCredential)
             => /\ mockResult'.settled = "fulfilled"
                /\ mockResult'.user = NoAuthUser
                /\ mockResult'.error = "User already exists"
                /\ mockUsers' = mockUsers
                /\ mockUserRoles' = mockUserRoles
                /\ mockCredentials' = mockCredentials
                /\ currentUser' = currentUser
                /\ notified' = <<>>
                /\ lastSeen' = lastSeen]_vars

\* C18 witness: signUp has returned 'User already exists' for an email that
\* an earlier signUp registered, while another user is current and a listener
\* is subscribed.
C18_Witness ==
    /\ mockResult.op = "signUp"
    /\ mockResult.error = "User already exists"
    /\ listeners # <<>>
    /\ \E i \in 1..Len(mockUsers) :
          /\ mockUsers[i].id.prefix = "user_"
          /\ mockCredentials[mockUsers[i].email] # NoCredential
          /\ currentUser # NoAuthUser
          /\ currentUser.email # mockUsers[i].email

\* C19: a successful signUp(email, password, fullName) adds one user record,
\* one 'patient' role assignment for the new id and one credential entry and
\* makes the new user current; a signIn(email, password) that only signOut
\* calls separate from it returns, with no error, the user the signUp returned
\* (same id, email and full name), and getUserRoles of that id has 'patient'.
C19_SignUpThenSignIn ==
    [][/\ \A e \in Emails, p \in Passwords, n \in FullNames :
             (MockSignUp(e, p, n) /\ mockCredentials[e] = NoCredential)
                => LET new == mockResult'.user
                   IN  /\ mockResult'.error = "null"
                       /\ new.email = e
                       /\ new.user_metadata.full_name = n
                       /\ Len(mockUsers') = Len(mockUsers) + 1
                       /\ SubSeq(mockUsers', 1, Len(mockUsers)) = mockUsers
                       /\ mockUsers'[Len(mockUsers')] =
                             [id |-> new.id, email |-> e, full_name |-> n]
                       /\ Len(mockUserRoles') = Len(mockUserRoles) + 1
                       /\ SubSeq(mockUserRoles', 1, Len(mockUserRoles)) = mockUserRoles
                       /\ mockUserRoles'[Len(mockUserRoles')].user_id = new.id
                       /\ mockUserRoles'[Len(mockUserRoles')].role = "patient"
                       /\ \A other \in Emails \ {e} :
                             mockCredentials'[other] = mockCredentials[other]
                       /\ mockCredentials'[e] = [password |-> p, userId |-> new.id]
                       /\ currentUser' = new
       /\ \A e \in Emails, p \in Passwords :
             (MockSignIn(e, p) /\ lastSignUp.email = e /\ lastSignUp.password = p)
                => /\ mockResult'.error = "null"
                   /\ mockResult'.user = lastSignUp.user
                   /\ \E i \in 1..Len(GetUserRoles(mockUserRoles', lastSignUp.user.id)) :
                         GetUserRoles(mockUserRoles', lastSignUp.user.id)[i] = "patient"]_vars

\* Registrations of the callback whose unsubscribe closure has not been called.
LiveCount(callback) ==
    Cardinality({h \in 1..Len(subs) :
                    subs[h].callback = callback /\ ~subs[h].called})

\* Calls the last operation made to the callback.
CallCount(callback, called) ==
    Cardinality({i \in 1..Len(called) : called[i] = callback})

\* C20: after every call of the mock service, each callback that has a
\* registration whose unsubscribe closure was not called has last been called
\* with the current user; onAuthStateChange calls the new callback once with
\* the current user, every signOut and every successful signUp / signIn calls
\* each callback once per such registration, and a callback with no such
\* registration is not called.
C20_ListenersSeeCurrentUser ==
    [][/\ \A cb \in Callbacks :
             LiveCount(cb)' > 0 => lastSeen'[cb] = currentUser'
       /\ \A cb \in Callbacks :
             Subscribe(cb, MaxSubs) => notified' = <<cb>>
       /\ (\/ MockSignOut
           \/ \E e \in Emails, p \in Passwords :
                 MockSignIn(e, p) /\ mockResult'.error = "null"
           \/ \E e \in Emails, p \in Passwords, n \in FullNames :
                 MockSignUp(e, p, n) /\ mockResult'.error = "null")
             => \A cb \in Callbacks : CallCount(cb, notified') = LiveCount(cb)]_vars

\* The ids of the cart's items, and the quantity the cart holds of an id (0 if
\* it holds none).
CartIds(items) == {items[i].id : i \in 1..Len(items)}
QuantityOf(items, id) ==
    IF \E i \in 1..Len(items) : items[i].id = id
    THEN items[CHOOSE i \in 1..Len(items) : items[i].id = id].quantity
    ELSE 0

\* C21: under any calls of addToCart and updateQuantity the cart holds at
\* most one item per medicine id and every quantity is at least 1; addToCart
\* of a medicine in the cart adds 1 to its quantity and changes nothing else,
\* addToCart of a medicine not in the cart appends it with quantity 1,
\* updateQuantity with a value <= 0 removes the item and keeps the others, and
\* addToCart with no user logged in leaves the cart as it is.
C21_CartWellFormed ==
    /\ [](/\ \A i, j \in 1..Len(cart) : cart[i].id = cart[j].id => i = j
          /\ \A i \in 1..Len(cart) : cart[i].quantity >= 1)
    /\ [][/\ \A m \in Catalogue :
                AddToCart(m)
                   => IF user = NoUser THEN cart' = cart
                      ELSE IF m.id \in CartIds(cart)
                      THEN /\ Len(cart') = Len(cart)
                           /\ \A i \in 1..Len(cart) :
                                 /\ cart'[i].id = cart[i].id
                                 /\ cart'[i].quantity =
                                       IF cart[i].id = m.id
                                       THEN cart[i].quantity + 1
                                       ELSE cart[i].quantity
                      ELSE /\ Len(cart') = Len(cart) + 1
                           /\ SubSeq(cart', 1, Len(cart)) = cart
                           /\ cart'[Len(cart')].id = m.id
                           /\ cart'[Len(cart')].quantity = 1
          /\ \A m \in Catalogue, q \in -1..0 :
                UpdateQuantity(m.id, q)
                   => /\ CartIds(cart') = CartIds(cart) \ {m.id}
                      /\ \A id \in CartIds(cart') :
                            QuantityOf(cart', id) = QuantityOf(cart, id)]_vars

\* C21 witness: the cart holds two medicines, the first MaxQuantity times,
\* the session has ended, and an addToCart has been refused for lack of a
\* user.
C21_Witness ==
    /\ Len(cart) = 2
    /\ cart[1].quantity = MaxQuantity
    /\ cart[2].quantity = 1
    /\ user = NoUser
    /\ cartToast = "Please login to add items to cart"

\* The stock of the medicine with the id, as the page loaded it.
StockOf(id) ==
    medicines[CHOOSE i \in 1..Len(medicines) : medicines[i].id = id].stock_quantity

\* C22: under the clicks the page's controls allow, every cart item is an
\* item of a loaded medicine and its quantity is at most the stock_quantity of
\* that medicine.
C22_QuantityWithinStock ==
    \A i \in 1..Len(cart) :
       /\ \E j \in 1..Len(medicines) : medicines[j].id = cart[i].id
       /\ cart[i].quantity <= StockOf(cart[i].id)

\* C22 witness: a user is logged in and both medicines are in the cart, each
\* at its full stock, one of them MaxStock, so both plus buttons are disabled.
C22_Witness ==
    /\ user # NoUser
    /\ Len(cart) = 2
    /\ \A i \in 1..2 : cart[i].quantity = StockOf(cart[i].id)
    /\ \E i \in 1..2 : cart[i].quantity = MaxStock
    /\ \E i \in 1..2 : cart[i].quantity = 1

\* The order_items rows of an order, in insertion order, and the sum of
\* price * quantity over rows.
ItemsOfOrder(orderId) == SelectSeq(orderItems, LAMBDA row : row.order_id = orderId)
RECURSIVE AmountOf(_)
AmountOf(rows) ==
    IF rows = <<>> THEN 0
    ELSE Head(rows).price * Head(rows).quantity + AmountOf(Tail(rows))

\* The step is a step of some call of handleCheckout.
CheckoutStep ==
    \/ HandleCheckout(MaxCheckouts)
    \/ \E k \in 1..Len(checkouts), o \in DbOutcomes : OrderReturn(k, o)
    \/ \E k \in 1..Len(checkouts), o \in DbOutcomes : ItemsReturn(k, o)

\* C23: a call of handleCheckout with an empty cart or an unconfigured
\* backend sends no insert and writes nothing; a step of handleCheckout empties
\* the cart exactly when it is the successful return of the order_items insert
\* of a call whose order insert succeeded, and every other step of
\* handleCheckout leaves the cart as it is; for every placed order the
\* order_items rows are one per entry of the cart the call was made with (same
\* medicine, quantity and price) and total_amount is the sum of
\* price * quantity over them.
C23_CheckoutAllOrNothing ==
    /\ [](\A k \in 1..Len(checkouts) :
             checkouts[k].pc = "placed"
                => LET rows == ItemsOfOrder(checkouts[k].order_id)
                       ordered == checkouts[k].cart
                   IN  /\ orders[checkouts[k].order_id].total_amount = AmountOf(rows)
                       /\ Len(rows) = Len(ordered)
                       /\ \A i \in 1..Len(rows) :
                             /\ rows[i].medicine_id = ordered[i].id
                             /\ rows[i].quantity = ordered[i].quantity
                             /\ rows[i].price = ordered[i].price)
    /\ [][/\ (HandleCheckout(MaxCheckouts) /\ (cart = <<>> \/ ~supabaseConfigured))
                => UNCHANGED <<orders, orderItems, checkouts, cart>>
          /\ \A k \in 1..Len(checkouts) :
                ItemsReturn(k, "ok")
                   => /\ cart' = <<>>
                      /\ checkouts[k].order_id \in 1..Len(orders)
                      /\ Len(orderItems') > Len(orderItems)
          /\ (CheckoutStep /\ ~\E k \in 1..Len(checkouts) : ItemsReturn(k, "ok"))
                => /\ cart' = cart
                   /\ orderItems' = orderItems]_vars

\* C23 witness: an order for both medicines has been placed, its total is
\* 2 * MaxStock + 3, two order_items rows were inserted and the cart is empty.
C23_Witness ==
    /\ cart = <<>>
    /\ Len(orderItems) = 2
    /\ \E k \in 1..Len(checkouts) :
          /\ checkouts[k].pc = "placed"
          /\ Len(checkouts[k].cart) = 2
          /\ orders[checkouts[k].order_id].total_amount = 2 * MaxStock + 3

\* --------------------------------------------------------------- C24 ----
\* The fields of the form pass every check of handleSubmit.
FormValid ==
    /\ supabaseConfigured
    /\ formData.email # ""
    /\ formData.password # <<>>
    /\ formData.fullName # ""
    /\ formData.password = formData.confirmPassword
    /\ Len(formData.password) >= MinPasswordLength

\* The step is a call of AdminService.createSuperAdmin.
CallsCreateSuperAdmin == Len(submissions') > Len(submissions)

InsertAttempts(id) ==
    {r \in Runs : hist[r].authUser = id /\ hist[r].inserts >= 1}
\* The rows of the user_roles relation that give identity id the role tag.
RowsOf(id, tag) ==
    {k \in 1..Len(roleTable) : roleTable[k] = Row(id, tag)}
\* Identity id had no row when the provider mounted: every row it has now was
\* written by an insert of one of its runs.
StartedWithoutRoles(id) ==
    Len(SelectRoles(roleTable, id)) =
        Cardinality({r \in Runs : hist[r].authUser = id /\ hist[r].insert = "ok"})

\* C25 (as claimed): for an identity that starts with zero role rows, under
\* any interleaving of the runs started by the initial getSession query and
\* by session-change notifications, at most one run attempts the insert of
\* the "patient" role, and the role relation never holds two "patient" rows
\* for that identity.
C25_ProvisionedAtMostOnce ==
    \A id \in Identities :
       StartedWithoutRoles(id)
          => /\ Cardinality(InsertAttempts(id)) <= 1
             /\ Cardinality(RowsOf(id, "patient")) <= 1
====
